---- MODULE Spec2Model ----
(***************************************************************************)
(* The clip-recording pipeline of ScreenShot/image.py: the Capture Loop    *)
(* (start_recording, thread "clip_thread"), the Orchestrator (the polling  *)
(* loop of main), the two Queue(1) channels between them, the settings     *)
(* check clip_compatibility and the encoder save_clip.                     *)
(***************************************************************************)
EXTENDS Integers, Sequences, FiniteSets, TLC

(***************************************************************************)
(* Bounds of the model.                                                    *)
(***************************************************************************)
\* largest deque maxlen (CLIP_DURATION_SECONDS * CLIP_FPS) a configuration may have
MaxCapacity == 2
\* configured clip_duration_seconds ranges over 0..MaxDuration
MaxDuration == 2
\* the clip key is pressed only while fewer than MaxClips entries are in CLIP_DIR
MaxClips == 2
\* the encoder holds back between 0 and MaxEncoderDelay frames
MaxEncoderDelay == 1

\* frames are identified by their capture number modulo FrameMod
FrameMod == MaxCapacity + 1

(***************************************************************************)
(* Program constants.                                                      *)
(***************************************************************************)
\* Queue(1): maxsize of clip_command_queue and of clip_buffer_queue
QueueMaxsize == 1
\* the frame rate the AUTO_BITRATES table assumes
BaselineFps == 30

\* av.codecs_available / av.formats_available: what the encoding backend offers
SUPPORTED_CODECS == {"h264", "hevc"}
SUPPORTED_FORMATS == {"mp4", "matroska"}

\* AUTO_BITRATES, keyed by f"{width}x{height}": the key is the pair of numbers
\* the string is formatted from
AUTO_BITRATES ==
  (<<3840, 2160>> :> 30000000) @@ (<<3440, 1440>> :> 25000000) @@
  (<<2560, 1440>> :> 20000000) @@ (<<2560, 1080>> :> 15000000) @@
  (<<1920, 1080>> :> 10000000) @@ (<<1280, 720>> :> 5000000)

\* f"{CLIP_SIZE[0]}x{CLIP_SIZE[1]}"
ResolutionKey(size) == <<size[1], size[2]>>

(***************************************************************************)
(* The values load_config may assign to the settings.                      *)
(***************************************************************************)
Codecs == {"h264", "made_up_codec"}
Formats == {"mp4", "made_up_format"}
Sizes == {<<3840, 2160>>, <<1280, 720>>, <<800, 600>>}
FpsValues == {1, 2, 30, 60, 65}
Auto == [auto |-> TRUE, bps |-> 0]
Numeric(n) == [auto |-> FALSE, bps |-> n]
Bitrates == {Auto, Numeric(8000000)}

(***************************************************************************)
(* int(CLIP_BITRATE * (CLIP_FPS / 30)) in IEEE-754 double arithmetic.      *)
(*                                                                         *)
(* fps / 30 is rounded to 53 bits: with 30 * 2^e <= fps < 30 * 2^(e+1),    *)
(*   fl(fps/30) = fps/30 + d / (15 * 2^(52-e)),                            *)
(* where r = (fps * 2^(51-e)) mod 15, and d = -r if r <= 7, 15 - r         *)
(* otherwise (2^4 = 1 mod 15, so 2^(51-e) mod 15 = 2^((51-e) mod 4)).      *)
(* The product with the table value t is rounded to 53 bits again and      *)
(* int() truncates.  When t*fps/30 is not an integer its fractional part   *)
(* is 1/3 or 2/3 and the rounding errors (below 2^-17) cannot cross an     *)
(* integer.  When A = t*fps/30 is an integer and d >= 0 the product is at  *)
(* least A.  When d < 0 the exact product is A - t*|d|/(15 * 2^(52-e)),    *)
(* which rounds to a double below A exactly when it is nearer to A's       *)
(* predecessor A - 2^(E-52), E = floor(log2 A), than to A:                 *)
(*   t * |d| > 15 * 2^(E-e-1)                                              *)
(* (no tie is possible: 5^6 divides t and not the right-hand side).        *)
(***************************************************************************)
RECURSIVE Pow2(_)
Pow2(n) == IF n = 0 THEN 1 ELSE 2 * Pow2(n - 1)

\* the largest e with d * 2^e <= n (n >= d >= 1)
RECURSIVE Log2Floor(_, _)
Log2Floor(n, d) == IF 2 * d <= n THEN 1 + Log2Floor(n, 2 * d) ELSE 0

\* the signed rounding error of fl(fps/30), in fifteenths of a unit in the last place
DivisionRoundingError(fps) ==
  LET e == Log2Floor(fps, BaselineFps)
      r == (fps * Pow2((51 - e) % 4)) % 15
  IN IF r <= 7 THEN 0 - r ELSE 15 - r

ScaleBitrate(t, fps) ==
  LET e == Log2Floor(fps, BaselineFps)
      d == DivisionRoundingError(fps)
      num == (t \div 10) * fps
      A == num \div 3
  IN IF num % 3 # 0 \/ d >= 0 THEN A
     ELSE IF t * (0 - d) > 15 * Pow2(Log2Floor(A, 1) - e - 1) THEN A - 1 ELSE A

(***************************************************************************)
(* clip_compatibility(): the value it returns ("True", "False", or         *)
(* "KeyError" when the table lookup raises) and the CLIP_BITRATE it leaves.*)
(***************************************************************************)
clip_compatibility_no_format_check(codec, format, bitrate, size, fps) ==
  IF codec \notin SUPPORTED_CODECS THEN [ret |-> "False", bitrate |-> bitrate]
  ELSE IF ~bitrate.auto THEN [ret |-> "True", bitrate |-> bitrate]
  ELSE IF ResolutionKey(size) \notin DOMAIN AUTO_BITRATES
       THEN [ret |-> "KeyError", bitrate |-> bitrate]
  ELSE LET t == AUTO_BITRATES[ResolutionKey(size)]
       IN [ret |-> "True",
           bitrate |-> Numeric(IF fps > BaselineFps THEN ScaleBitrate(t, fps) ELSE t)]

clip_compatibility_default_bitrate(codec, format, bitrate, size, fps) ==
  IF codec \notin SUPPORTED_CODECS THEN [ret |-> "False", bitrate |-> bitrate]
  ELSE IF format \notin SUPPORTED_FORMATS THEN [ret |-> "False", bitrate |-> bitrate]
  ELSE IF ~bitrate.auto THEN [ret |-> "True", bitrate |-> bitrate]
  ELSE LET t == IF ResolutionKey(size) \in DOMAIN AUTO_BITRATES
                THEN AUTO_BITRATES[ResolutionKey(size)] ELSE 10000000
       IN [ret |-> "True",
           bitrate |-> Numeric(IF fps > BaselineFps THEN ScaleBitrate(t, fps) ELSE t)]

clip_compatibility_no_resolve(codec, format, bitrate, size, fps) ==
  IF codec \notin SUPPORTED_CODECS THEN [ret |-> "False", bitrate |-> bitrate]
  ELSE IF format \notin SUPPORTED_FORMATS THEN [ret |-> "False", bitrate |-> bitrate]
  ELSE IF ~bitrate.auto THEN [ret |-> "True", bitrate |-> bitrate]
  ELSE IF ResolutionKey(size) \notin DOMAIN AUTO_BITRATES
       THEN [ret |-> "KeyError", bitrate |-> bitrate]
  ELSE [ret |-> "True", bitrate |-> bitrate]

clip_compatibility(codec, format, bitrate, size, fps) ==
  IF codec \notin SUPPORTED_CODECS THEN [ret |-> "False", bitrate |-> bitrate]
  ELSE IF format \notin SUPPORTED_FORMATS THEN [ret |-> "False", bitrate |-> bitrate]
  ELSE IF ~bitrate.auto THEN [ret |-> "True", bitrate |-> bitrate]
  ELSE IF ResolutionKey(size) \notin DOMAIN AUTO_BITRATES
       THEN [ret |-> "KeyError", bitrate |-> bitrate]
  ELSE LET t == AUTO_BITRATES[ResolutionKey(size)]
       IN [ret |-> "True",
           bitrate |-> Numeric(IF fps > BaselineFps THEN ScaleBitrate(t, fps) ELSE t)]

(***************************************************************************)
(* collections.deque(maxlen=n).append(x)                                   *)
(***************************************************************************)
DequeAppend_no_eviction(buf, x, maxlen) == Append(buf, x)

DequeAppend_drop_newest(buf, x, maxlen) ==
  IF Len(buf) >= maxlen THEN buf ELSE Append(buf, x)

DequeAppend(buf, x, maxlen) ==
  IF maxlen = 0 THEN buf
  ELSE IF Len(buf) >= maxlen THEN Append(Tail(buf), x)
  ELSE Append(buf, x)

(***************************************************************************)
(* codec_context.encode(frame): the encoder takes the frame and returns    *)
(* the packets it has finished, none while it still holds back `delay`     *)
(* frames; what it holds when save_clip ends is never asked for            *)
(* (save_clip makes no final encode(None) call).                           *)
(***************************************************************************)
EncodePending(ctx, frame) ==
  LET all == Append(ctx.pending, frame)
  IN IF Len(all) > ctx.delay THEN Tail(all) ELSE all

EncodePackets(ctx, frame) ==
  LET all == Append(ctx.pending, frame)
  IN IF Len(all) > ctx.delay THEN <<Head(all)>> ELSE <<>>

NoContext == [delay |-> 0, pending |-> <<>>, bit_rate |-> Auto, open |-> FALSE]

Min(a, b) == IF a <= b THEN a ELSE b

(***************************************************************************)
(* State.                                                                  *)
(***************************************************************************)
VARIABLES
  CLIP_CODEC, CLIP_FORMAT, CLIP_SIZE, CLIP_FPS, CLIP_DURATION_SECONDS,
  CLIP_BITRATE,          \* the module-level settings
  config_clip_bitrate,   \* config["clip_bitrate"], as load_config read it
  compat,                \* what clip_compatibility() gave: "unset" before the call
  video_buffer,          \* the deque of start_recording, oldest frame first
  clip_command_queue,    \* Queue(1) of "save" / "stop"
  clip_buffer_queue,     \* Queue(1) carrying the reference to video_buffer
  unfinished_tasks,      \* clip_buffer_queue.unfinished_tasks (put / task_done / join)
  pc_rec,                \* where clip_thread is in start_recording
  pc_main,               \* where the main thread is in main's loop
  snapshot,              \* the contents main found behind the reference it received
  frame_idx,             \* position of save_clip's "for frame in video_buffer"
  output,                \* the number n of the clip_<n> file save_clip has opened
  codec_context,         \* the encoder save_clip created
  clip_dir,              \* CLIP_DIR: clip number -> the frames muxed into that file
  last_save,             \* how the save_clip call in progress ended
  next_frame,            \* the number (mod FrameMod) the next captured frame gets
  since_clear,           \* frames captured since the buffer was last empty (capped)
  capture_failed,        \* pyautogui.screenshot() has raised
  outstanding            \* "save" commands sent and not yet acknowledged by task_done

settings == <<CLIP_CODEC, CLIP_FORMAT, CLIP_SIZE, CLIP_FPS, CLIP_DURATION_SECONDS>>
rec_vars == <<compat, video_buffer, pc_rec, next_frame, since_clear, capture_failed>>
save_vars == <<snapshot, frame_idx, output, codec_context, clip_dir, last_save>>
vars == <<settings, CLIP_BITRATE, config_clip_bitrate, rec_vars, save_vars,
          clip_command_queue, clip_buffer_queue, unfinished_tasks, pc_main, outstanding>>

\* deque(maxlen=CLIP_DURATION_SECONDS * CLIP_FPS)
Capacity == CLIP_DURATION_SECONDS * CLIP_FPS

(***************************************************************************)
(* The state when main has loaded the configuration, created the two       *)
(* queues and started clip_thread.                                         *)
(***************************************************************************)
Init ==
  /\ CLIP_CODEC \in Codecs
  /\ CLIP_FORMAT \in Formats
  /\ CLIP_SIZE \in Sizes
  /\ CLIP_FPS \in FpsValues
  /\ CLIP_DURATION_SECONDS \in 0..MaxDuration
  /\ CLIP_DURATION_SECONDS * CLIP_FPS <= MaxCapacity
  /\ CLIP_BITRATE \in Bitrates
  /\ config_clip_bitrate = CLIP_BITRATE
  /\ compat = "unset"
  /\ video_buffer = <<>>
  /\ clip_command_queue = <<>>
  /\ clip_buffer_queue = <<>>
  /\ unfinished_tasks = 0
  /\ pc_rec = "start"
  /\ pc_main = "poll"
  /\ snapshot = <<>>
  /\ frame_idx = 0
  /\ output = 0
  /\ codec_context = NoContext
  /\ clip_dir = [n \in {} |-> <<>>]
  /\ last_save = "none"
  /\ next_frame = 0
  /\ since_clear = 0
  /\ capture_failed = FALSE
  /\ outstanding = 0

(***************************************************************************)
(* The Capture Loop: start_recording.                                      *)
(***************************************************************************)
\* lines 161-165: the settings check, then the deque is created
RecStart ==
  /\ pc_rec = "start"
  /\ LET c == clip_compatibility(CLIP_CODEC, CLIP_FORMAT, CLIP_BITRATE, CLIP_SIZE, CLIP_FPS)
     IN /\ compat' = c.ret
        /\ CLIP_BITRATE' = c.bitrate
        /\ pc_rec' = CASE c.ret = "True" -> "capture"
                       [] c.ret = "False" -> "returned"
                       [] OTHER -> "failed"
  /\ UNCHANGED <<settings, config_clip_bitrate, video_buffer, next_frame, since_clear,
                 capture_failed, save_vars, clip_command_queue, clip_buffer_queue,
                 unfinished_tasks, pc_main, outstanding>>

\* lines 169-170: one frame is captured and appended
RecCapture ==
  /\ pc_rec = "capture"
  /\ video_buffer' = DequeAppend(video_buffer, next_frame, Capacity)
  /\ next_frame' = (next_frame + 1) % FrameMod
  /\ since_clear' = Min(since_clear + 1, Capacity + 1)
  /\ pc_rec' = "poll"
  /\ UNCHANGED <<settings, CLIP_BITRATE, config_clip_bitrate, compat, capture_failed,
                 save_vars, clip_command_queue, clip_buffer_queue, unfinished_tasks,
                 pc_main, outstanding>>

\* line 169 raises: it stands outside the try, the exception ends the thread
RecCaptureFail_swallowed ==
  /\ pc_rec = "capture"
  /\ capture_failed' = TRUE
  /\ pc_rec' = "poll"
  /\ UNCHANGED <<settings, CLIP_BITRATE, config_clip_bitrate, compat, video_buffer,
                 next_frame, since_clear, save_vars, clip_command_queue,
                 clip_buffer_queue, unfinished_tasks, pc_main, outstanding>>

RecCaptureFail ==
  /\ pc_rec = "capture"
  /\ capture_failed' = TRUE
  /\ pc_rec' = "failed"
  /\ UNCHANGED <<settings, CLIP_BITRATE, config_clip_bitrate, compat, video_buffer,
                 next_frame, since_clear, save_vars, clip_command_queue,
                 clip_buffer_queue, unfinished_tasks, pc_main, outstanding>>

\* lines 172-173, 181-184: get_nowait() on the empty queue raises Empty, which the
\* bare except passes over; the loop sleeps and goes round
RecPollEmpty_breaks ==
  /\ pc_rec = "poll"
  /\ clip_command_queue = <<>>
  /\ pc_rec' = "stopped"
  /\ UNCHANGED <<settings, CLIP_BITRATE, config_clip_bitrate, compat, video_buffer,
                 next_frame, since_clear, capture_failed, save_vars, clip_command_queue,
                 clip_buffer_queue, unfinished_tasks, pc_main, outstanding>>

RecPollEmpty ==
  /\ pc_rec = "poll"
  /\ clip_command_queue = <<>>
  /\ pc_rec' = "capture"
  /\ UNCHANGED <<settings, CLIP_BITRATE, config_clip_bitrate, compat, video_buffer,
                 next_frame, since_clear, capture_failed, save_vars, clip_command_queue,
                 clip_buffer_queue, unfinished_tasks, pc_main, outstanding>>

\* lines 173, 178-179: a command is taken; "save" leads to the hand-off, anything
\* else breaks out of the loop
RecPollCommand_no_break ==
  /\ pc_rec = "poll"
  /\ clip_command_queue # <<>>
  /\ clip_command_queue' = Tail(clip_command_queue)
  /\ pc_rec' = IF Head(clip_command_queue) = "save" THEN "put" ELSE "capture"
  /\ UNCHANGED <<settings, CLIP_BITRATE, config_clip_bitrate, compat, video_buffer,
                 next_frame, since_clear, capture_failed, save_vars, clip_buffer_queue,
                 unfinished_tasks, pc_main, outstanding>>

RecPollCommand_peek ==
  /\ pc_rec = "poll"
  /\ clip_command_queue # <<>>
  /\ clip_command_queue' =
       IF Head(clip_command_queue) = "save" THEN clip_command_queue
       ELSE Tail(clip_command_queue)
  /\ pc_rec' = IF Head(clip_command_queue) = "save" THEN "put" ELSE "stopped"
  /\ UNCHANGED <<settings, CLIP_BITRATE, config_clip_bitrate, compat, video_buffer,
                 next_frame, since_clear, capture_failed, save_vars, clip_buffer_queue,
                 unfinished_tasks, pc_main, outstanding>>

RecPollCommand ==
  /\ pc_rec = "poll"
  /\ clip_command_queue # <<>>
  /\ clip_command_queue' = Tail(clip_command_queue)
  /\ pc_rec' = IF Head(clip_command_queue) = "save" THEN "put" ELSE "stopped"
  /\ UNCHANGED <<settings, CLIP_BITRATE, config_clip_bitrate, compat, video_buffer,
                 next_frame, since_clear, capture_failed, save_vars, clip_buffer_queue,
                 unfinished_tasks, pc_main, outstanding>>

\* line 174: buffer_queue.put(video_buffer) waits while the queue is full and
\* counts one unfinished task
RecPut ==
  /\ pc_rec = "put"
  /\ Len(clip_buffer_queue) < QueueMaxsize
  /\ clip_buffer_queue' = Append(clip_buffer_queue, "video_buffer")
  /\ unfinished_tasks' = unfinished_tasks + 1
  /\ pc_rec' = "join"
  /\ UNCHANGED <<settings, CLIP_BITRATE, config_clip_bitrate, compat, video_buffer,
                 next_frame, since_clear, capture_failed, save_vars, clip_command_queue,
                 pc_main, outstanding>>

\* line 175: buffer_queue.join() waits until every put has been task_done
RecJoin_no_wait ==
  /\ pc_rec = "join"
  /\ pc_rec' = "clear"
  /\ UNCHANGED <<settings, CLIP_BITRATE, config_clip_bitrate, compat, video_buffer,
                 next_frame, since_clear, capture_failed, save_vars, clip_command_queue,
                 clip_buffer_queue, unfinished_tasks, pc_main, outstanding>>

RecJoin ==
  /\ pc_rec = "join"
  /\ unfinished_tasks = 0
  /\ pc_rec' = "clear"
  /\ UNCHANGED <<settings, CLIP_BITRATE, config_clip_bitrate, compat, video_buffer,
                 next_frame, since_clear, capture_failed, save_vars, clip_command_queue,
                 clip_buffer_queue, unfinished_tasks, pc_main, outstanding>>

\* lines 176, 184: the buffer is cleared, the loop sleeps and goes round
RecClear_keeps_frames ==
  /\ pc_rec = "clear"
  /\ since_clear' = 0
  /\ pc_rec' = "capture"
  /\ UNCHANGED <<settings, CLIP_BITRATE, config_clip_bitrate, compat, video_buffer,
                 next_frame, capture_failed, save_vars, clip_command_queue,
                 clip_buffer_queue, unfinished_tasks, pc_main, outstanding>>

RecClear_then_poll ==
  /\ pc_rec = "clear"
  /\ video_buffer' = <<>>
  /\ since_clear' = 0
  /\ pc_rec' = "poll"
  /\ UNCHANGED <<settings, CLIP_BITRATE, config_clip_bitrate, compat, next_frame,
                 capture_failed, save_vars, clip_command_queue, clip_buffer_queue,
                 unfinished_tasks, pc_main, outstanding>>

RecClear ==
  /\ pc_rec = "clear"
  /\ video_buffer' = <<>>
  /\ since_clear' = 0
  /\ pc_rec' = "capture"
  /\ UNCHANGED <<settings, CLIP_BITRATE, config_clip_bitrate, compat, next_frame,
                 capture_failed, save_vars, clip_command_queue, clip_buffer_queue,
                 unfinished_tasks, pc_main, outstanding>>

RecNext ==
  \/ RecStart
  \/ RecCapture
  \/ RecCaptureFail
  \/ RecPollEmpty
  \/ RecPollCommand
  \/ RecPut
  \/ RecJoin
  \/ RecClear

(***************************************************************************)
(* The Orchestrator: the polling loop of main.                             *)
(***************************************************************************)
main_rest == <<settings, CLIP_BITRATE, config_clip_bitrate, rec_vars>>

\* lines 303-304: the clip key is found pressed
MainClipKey ==
  /\ pc_main = "poll"
  /\ Cardinality(DOMAIN clip_dir) < MaxClips
  /\ pc_main' = "put_save"
  /\ UNCHANGED <<main_rest, save_vars, clip_command_queue, clip_buffer_queue,
                 unfinished_tasks, outstanding>>

\* line 312: the termination chord is found pressed
MainStopKey ==
  /\ pc_main = "poll"
  /\ pc_main' = "put_stop"
  /\ UNCHANGED <<main_rest, save_vars, clip_command_queue, clip_buffer_queue,
                 unfinished_tasks, outstanding>>

\* line 305: clip_command_queue.put("save") waits while the queue is full
MainPutSave ==
  /\ pc_main = "put_save"
  /\ Len(clip_command_queue) < QueueMaxsize
  /\ clip_command_queue' = Append(clip_command_queue, "save")
  /\ outstanding' = outstanding + 1
  /\ pc_main' = "get"
  /\ UNCHANGED <<main_rest, save_vars, clip_buffer_queue, unfinished_tasks>>

\* lines 307-308: clip_buffer_queue.get() waits for the buffer's reference
MainGet_ack_on_receipt ==
  /\ pc_main = "get"
  /\ clip_buffer_queue # <<>>
  /\ clip_buffer_queue' = Tail(clip_buffer_queue)
  /\ snapshot' = video_buffer
  /\ unfinished_tasks' = 0
  /\ pc_main' = "save_clip"
  /\ UNCHANGED <<main_rest, frame_idx, output, codec_context, clip_dir, last_save,
                 clip_command_queue, outstanding>>

MainGet_no_wait ==
  /\ pc_main = "get"
  /\ IF clip_buffer_queue # <<>>
     THEN /\ clip_buffer_queue' = Tail(clip_buffer_queue)
          /\ snapshot' = video_buffer
          /\ pc_main' = "save_clip"
     ELSE /\ pc_main' = "poll"
          /\ UNCHANGED <<clip_buffer_queue, snapshot>>
  /\ UNCHANGED <<main_rest, frame_idx, output, codec_context, clip_dir, last_save,
                 clip_command_queue, unfinished_tasks, outstanding>>

MainGet_timeout ==
  /\ pc_main = "get"
  /\ IF clip_buffer_queue # <<>>
     THEN /\ clip_buffer_queue' = Tail(clip_buffer_queue)
          /\ snapshot' = video_buffer
          /\ pc_main' = "save_clip"
          /\ UNCHANGED outstanding
     ELSE /\ pc_rec \in {"returned", "failed", "stopped"}
          /\ pc_main' = "poll"
          /\ outstanding' = outstanding - 1
          /\ UNCHANGED <<clip_buffer_queue, snapshot>>
  /\ UNCHANGED <<main_rest, frame_idx, output, codec_context, clip_dir, last_save,
                 clip_command_queue, unfinished_tasks>>

MainGet ==
  /\ pc_main = "get"
  /\ clip_buffer_queue # <<>>
  /\ clip_buffer_queue' = Tail(clip_buffer_queue)
  /\ snapshot' = video_buffer
  /\ pc_main' = "save_clip"
  /\ UNCHANGED <<main_rest, frame_idx, output, codec_context, clip_dir, last_save,
                 clip_command_queue, unfinished_tasks, outstanding>>

\* save_clip, lines 109-111: nothing to save
SaveClipEmpty ==
  /\ pc_main = "save_clip"
  /\ Len(video_buffer) = 0
  /\ last_save' = "no_frames"
  /\ pc_main' = "task_done"
  /\ UNCHANGED <<main_rest, snapshot, frame_idx, output, codec_context, clip_dir,
                 clip_command_queue, clip_buffer_queue, unfinished_tasks, outstanding>>

\* save_clip, lines 113-138: the file clip_<number of entries> is opened for
\* writing and the encoder is created and configured
SaveClipOpen_fixed_name ==
  /\ pc_main = "save_clip"
  /\ Len(video_buffer) # 0
  /\ output' = 0
  /\ clip_dir' = (0 :> <<>>) @@ [n \in DOMAIN clip_dir \ {0} |-> clip_dir[n]]
  /\ \E delay \in 0..MaxEncoderDelay :
       codec_context' = [delay |-> delay, pending |-> <<>>,
                         bit_rate |-> CLIP_BITRATE, open |-> TRUE]
  /\ frame_idx' = 1
  /\ last_save' = "writing"
  /\ pc_main' = "encode"
  /\ UNCHANGED <<main_rest, snapshot, clip_command_queue, clip_buffer_queue,
                 unfinished_tasks, outstanding>>

SaveClipOpen ==
  /\ pc_main = "save_clip"
  /\ Len(video_buffer) # 0
  /\ LET clip_num == Cardinality(DOMAIN clip_dir)
     IN /\ output' = clip_num
        /\ clip_dir' = (clip_num :> <<>>) @@ clip_dir
  /\ \E delay \in 0..MaxEncoderDelay :
       codec_context' = [delay |-> delay, pending |-> <<>>,
                         bit_rate |-> CLIP_BITRATE, open |-> TRUE]
  /\ frame_idx' = 1
  /\ last_save' = "writing"
  /\ pc_main' = "encode"
  /\ UNCHANGED <<main_rest, snapshot, clip_command_queue, clip_buffer_queue,
                 unfinished_tasks, outstanding>>

\* save_clip, lines 142-147: the next frame of the buffer is encoded and the
\* packets the encoder returns are muxed
SaveClipEncode ==
  /\ pc_main = "encode"
  /\ frame_idx <= Len(video_buffer)
  /\ LET frame == video_buffer[frame_idx]
     IN /\ clip_dir' = [clip_dir EXCEPT ![output] = @ \o EncodePackets(codec_context, frame)]
        /\ codec_context' = [codec_context EXCEPT !.pending = EncodePending(codec_context, frame)]
  /\ frame_idx' = frame_idx + 1
  /\ UNCHANGED <<main_rest, snapshot, output, last_save, pc_main, clip_command_queue,
                 clip_buffer_queue, unfinished_tasks, outstanding>>

\* save_clip, lines 149-150: the loop is over, output.close(); the encoder goes
\* out of scope with whatever it still holds
SaveClipClose ==
  /\ pc_main = "encode"
  /\ frame_idx > Len(video_buffer)
  /\ codec_context' = NoContext
  /\ frame_idx' = 0
  /\ last_save' = "written"
  /\ pc_main' = "task_done"
  /\ UNCHANGED <<main_rest, snapshot, output, clip_dir, clip_command_queue,
                 clip_buffer_queue, unfinished_tasks, outstanding>>

\* lines 310-311, 315: task_done(), the notification, the sleep
MainTaskDone_no_ack ==
  /\ pc_main = "task_done"
  /\ outstanding' = outstanding - 1
  /\ snapshot' = <<>>
  /\ last_save' = "none"
  /\ output' = 0
  /\ pc_main' = "poll"
  /\ UNCHANGED <<main_rest, frame_idx, codec_context, clip_dir, clip_command_queue,
                 clip_buffer_queue, unfinished_tasks>>

MainTaskDone ==
  /\ pc_main = "task_done"
  /\ unfinished_tasks' = unfinished_tasks - 1
  /\ outstanding' = outstanding - 1
  /\ snapshot' = <<>>
  /\ last_save' = "none"
  /\ output' = 0
  /\ pc_main' = "poll"
  /\ UNCHANGED <<main_rest, frame_idx, codec_context, clip_dir, clip_command_queue,
                 clip_buffer_queue>>

\* lines 313-314: clip_command_queue.put("stop"), then break
MainPutStop ==
  /\ pc_main = "put_stop"
  /\ Len(clip_command_queue) < QueueMaxsize
  /\ clip_command_queue' = Append(clip_command_queue, "stop")
  /\ pc_main' = "done"
  /\ UNCHANGED <<main_rest, save_vars, clip_buffer_queue, unfinished_tasks, outstanding>>

\* what main does of its own accord, once a key was seen
MainStep ==
  \/ MainPutSave
  \/ MainGet
  \/ SaveClipEmpty
  \/ SaveClipOpen
  \/ SaveClipEncode
  \/ SaveClipClose
  \/ MainTaskDone
  \/ MainPutStop

MainNext ==
  \/ MainClipKey
  \/ MainStopKey
  \/ MainStep

Next == RecNext \/ MainNext

Spec == Init /\ [][Next]_vars

\* the runs the progress properties are checked on: every codec, format, frame
\* rate and duration of Init, at one resolution of the table with the bitrate
\* left to clip_compatibility
LiveInit == Init /\ CLIP_SIZE = <<1280, 720>> /\ CLIP_BITRATE = Auto

\* the threads are scheduled fairly: clip_thread runs whenever it can, and so does
\* main once it has seen a key (a key press itself is up to the user)
FairSpec == LiveInit /\ [][Next]_vars /\ WF_vars(RecNext) /\ WF_vars(MainStep)

(***************************************************************************)
(* Vocabulary of the properties.                                           *)
(***************************************************************************)
\* clip_thread is inside the while loop of start_recording
InLoop == pc_rec \in {"capture", "poll", "put", "join", "clear"}

\* main is inside save_clip or has not yet acknowledged the buffer it received
Holding == pc_main \in {"save_clip", "encode", "task_done"}

\* the n most recently captured frames, oldest first
MostRecent(n) == [i \in 1..n |-> (next_frame + 2 * FrameMod - n + i - 1) % FrameMod]

SettingsRejected ==
  CLIP_CODEC \notin SUPPORTED_CODECS \/ CLIP_FORMAT \notin SUPPORTED_FORMATS

(***************************************************************************)
(* C1: for a delivered snapshot of N frames, save_clip either (N = 0)      *)
(* reports "no frames" and creates no file, or (N > 0) creates exactly one *)
(* file holding exactly the N frames of the snapshot, in buffer order.     *)
(* The encoder's held-back frames are never written, so this fails.        *)
(***************************************************************************)
C1_SaveClipWritesEveryFrame ==
  /\ [](pc_main = "task_done" =>
          IF Len(snapshot) = 0 THEN last_save = "no_frames"
          ELSE last_save = "written" /\ clip_dir[output] = snapshot)
  /\ [][pc_main = "save_clip" /\ pc_main' # pc_main =>
          IF Len(snapshot) = 0 THEN clip_dir' = clip_dir
          ELSE /\ output' \notin DOMAIN clip_dir
               /\ DOMAIN clip_dir' = DOMAIN clip_dir \cup {output'}]_vars
  /\ [][pc_main = "encode" => DOMAIN clip_dir' = DOMAIN clip_dir]_vars

(***************************************************************************)
(* C2: the buffer never holds more than Capacity frames, and an append to  *)
(* a full buffer removes the oldest frame and nothing else.                *)
(***************************************************************************)
C2_RingBufferBounded ==
  /\ [](Len(video_buffer) <= Capacity)
  /\ [][next_frame' # next_frame /\ Capacity > 0 /\ Len(video_buffer) = Capacity =>
          video_buffer' = Append(Tail(video_buffer), next_frame)]_vars

C2_Witness ==
  /\ Capacity >= 2
  /\ since_clear > Capacity
  /\ Len(video_buffer) = Capacity
  /\ pc_rec = "poll"

(***************************************************************************)
(* C3: the snapshot main receives is exactly the min(k, Capacity) most     *)
(* recently captured frames, in capture order, k being the number of       *)
(* frames captured since the buffer was last empty.                        *)
(***************************************************************************)
C3_SnapshotIsNewestFrames ==
  Holding => snapshot = MostRecent(Min(since_clear, Capacity))

C3_Witness ==
  /\ pc_main = "save_clip"
  /\ Capacity >= 2
  /\ since_clear > Capacity
  /\ Len(snapshot) = Capacity

(***************************************************************************)
(* C4: from the put of the buffer on the result queue until task_done the  *)
(* Capture Loop neither appends to nor clears the buffer, so main reads    *)
(* what it was handed; the clear comes only after the acknowledgement.     *)
(***************************************************************************)
C4_HandOffOrder ==
  /\ [][unfinished_tasks > 0 \/ unfinished_tasks' > 0 =>
          video_buffer' = video_buffer]_vars
  /\ [](Holding => video_buffer = snapshot)
  /\ [](pc_rec = "clear" => unfinished_tasks = 0 /\ ~Holding)

C4_Witness ==
  /\ pc_main = "encode"
  /\ frame_idx = 2
  /\ pc_rec = "join"
  /\ unfinished_tasks = 1
  /\ Len(video_buffer) >= 2

(***************************************************************************)
(* C5: the command queue never holds more than one command, at most one    *)
(* "save" is sent and not yet acknowledged, and nothing is added to the    *)
(* command queue while it holds a command.                                 *)
(***************************************************************************)
C5_SingleOutstandingSave ==
  /\ [](Len(clip_command_queue) <= QueueMaxsize)
  /\ [](outstanding <= 1)
  /\ [][clip_command_queue # <<>> =>
          Len(clip_command_queue') <= Len(clip_command_queue)]_vars

C5_Witness ==
  /\ clip_command_queue = <<"save">>
  /\ pc_main = "get"
  /\ outstanding = 1
  /\ pc_rec = "poll"

(***************************************************************************)
(* C6: with an unsupported codec or format clip_compatibility returns      *)
(* False, no frame is ever captured, no encoder and no clip file is ever   *)
(* created, and a clip-key press never gets as far as save_clip.           *)
(***************************************************************************)
C6_UnsupportedSettingsRejected ==
  SettingsRejected =>
    /\ pc_rec \in {"start", "returned"}
    /\ (pc_rec = "returned" => compat = "False")
    /\ (pc_rec = "start" => compat = "unset")
    /\ video_buffer = <<>> /\ next_frame = 0 /\ since_clear = 0
    /\ DOMAIN clip_dir = {}
    /\ ~codec_context.open
    /\ ~Holding /\ pc_main # "encode" /\ last_save = "none"

C6_Witness ==
  /\ CLIP_CODEC \in SUPPORTED_CODECS
  /\ CLIP_FORMAT \notin SUPPORTED_FORMATS
  /\ pc_rec = "returned"
  /\ pc_main = "get"

(***************************************************************************)
(* C7: with clip_bitrate = "auto" and a resolution of the table, the       *)
(* resolved bitrate is the table value when fps <= 30 and                  *)
(* floor(table value * fps / 30) when fps > 30; a numeric clip_bitrate is  *)
(* left as it is.  The double arithmetic of line 93-94 misses the floor.   *)
(***************************************************************************)
C7_AutoBitrateIsFloor ==
  compat = "True" =>
    IF config_clip_bitrate.auto
    THEN LET t == AUTO_BITRATES[ResolutionKey(CLIP_SIZE)]
         IN CLIP_BITRATE = Numeric(IF CLIP_FPS <= 30 THEN t
                                   ELSE (t * CLIP_FPS) \div 30)
    ELSE CLIP_BITRATE = config_clip_bitrate

C9_CaptureLoopNeverWaits ==
  /\ ~(pc_rec = "join" /\ unfinished_tasks > 0)
  /\ ~(pc_rec = "put" /\ Len(clip_buffer_queue) >= QueueMaxsize)

(***************************************************************************)
(* C9 amended: the put on the result queue never waits, but the join does: *)
(* for as long as main is in save_clip and has not called task_done the    *)
(* Capture Loop stands in buffer_queue.join().                             *)
(***************************************************************************)
C9_WaitsInJoinWhileEncoding ==
  /\ (pc_rec = "put" => clip_buffer_queue = <<>>)
  /\ (Holding \/ pc_main = "encode" => pc_rec = "join" /\ unfinished_tasks = 1)

C9_Witness ==
  /\ pc_main = "task_done"
  /\ last_save = "written"
  /\ pc_rec = "join"
  /\ unfinished_tasks = 1

(***************************************************************************)
(* C10 as stated: the Capture Loop survives a capture failure.             *)
(***************************************************************************)
C10_CaptureFailureIgnored == capture_failed => InLoop

(***************************************************************************)
(* C10 amended: a capture failure ends the Capture Loop thread for good;   *)
(* what the bare except passes over is the Empty of get_nowait, after      *)
(* which the loop goes on to the next tick with the buffer as it was.      *)
(***************************************************************************)
C10_CaptureFailureEndsLoop ==
  /\ [](capture_failed => pc_rec = "failed")
  /\ [][pc_rec = "failed" => pc_rec' = "failed" /\ video_buffer' = video_buffer]_vars
  /\ [][pc_rec = "poll" /\ clip_command_queue = <<>> /\ pc_rec' # pc_rec =>
          pc_rec' = "capture" /\ video_buffer' = video_buffer]_vars

C10_Witness ==
  /\ capture_failed
  /\ pc_rec = "failed"
  /\ since_clear >= 1
  /\ pc_main = "get"

\* clip_thread has left start_recording: by the return of line 162, by the break
\* of line 179, or by an exception
Exited == pc_rec \in {"returned", "stopped", "failed"}

(***************************************************************************)
(* C11 as stated: the Capture Loop leaves its loop only by consuming a     *)
(* command other than "save".                                              *)
(***************************************************************************)
C11_ExitsOnlyByStop ==
  [][InLoop /\ pc_rec' \in {"returned", "stopped", "failed", "start"} =>
       /\ pc_rec = "poll" /\ pc_rec' = "stopped"
       /\ clip_command_queue # <<>> /\ Head(clip_command_queue) # "save"
       /\ clip_command_queue' = Tail(clip_command_queue)]_vars

(***************************************************************************)
(* C11 amended: the Capture Loop leaves its loop only by consuming a       *)
(* command other than "save" or by a capture failure; a poll that finds    *)
(* the command queue empty leaves it running with the buffer unchanged,    *)
(* and so does serving a "save".                                           *)
(***************************************************************************)
C11_ExitsByStopOrCaptureFailure ==
  /\ [][InLoop /\ pc_rec' \in {"returned", "stopped", "failed", "start"} =>
          \/ /\ pc_rec = "poll" /\ pc_rec' = "stopped"
             /\ clip_command_queue # <<>> /\ Head(clip_command_queue) # "save"
             /\ clip_command_queue' = Tail(clip_command_queue)
          \/ /\ pc_rec = "capture" /\ pc_rec' = "failed"
             /\ ~capture_failed /\ capture_failed']_vars
  /\ [][pc_rec = "poll" /\ pc_rec' # pc_rec /\ clip_command_queue = <<>> =>
          pc_rec' = "capture" /\ video_buffer' = video_buffer]_vars
  /\ [][pc_rec = "poll" /\ pc_rec' # pc_rec /\ clip_command_queue # <<>>
          /\ Head(clip_command_queue) = "save" => pc_rec' = "put"]_vars
  /\ [][(pc_rec \in {"put", "join", "clear"}) =>
          pc_rec' \in {"put", "join", "clear", "capture"}]_vars

C11_Witness ==
  /\ pc_rec = "capture"
  /\ video_buffer = <<>>
  /\ Cardinality(DOMAIN clip_dir) >= 1
  /\ pc_main = "poll"
  /\ unfinished_tasks = 0

(***************************************************************************)
(* C12: under fair scheduling a "save" sent to a Capture Loop that is in   *)
(* its loop is answered with a snapshot unless a capture fails first; main *)
(* then gets through save_clip and task_done back to polling, and the      *)
(* Capture Loop gets from its join back to capturing.                      *)
(***************************************************************************)
C12_SaveIsServed ==
  /\ ((pc_main = "get" /\ InLoop) ~> (Holding \/ capture_failed))
  /\ (Holding ~> pc_main = "poll")
  /\ (pc_rec = "join" ~> pc_rec = "capture")

C12_Witness ==
  /\ pc_main = "poll"
  /\ pc_rec = "poll"
  /\ Cardinality(DOMAIN clip_dir) >= 1
  /\ since_clear >= 1
  /\ ~capture_failed

(***************************************************************************)
(* C13: once the Capture Loop has exited, a "save" main wants to send is   *)
(* sent at once, and the wait for the snapshot that follows never ends:    *)
(* the result queue is empty and stays empty, main stays in get().         *)
(***************************************************************************)
C13_SaveAfterExitBlocksForever ==
  /\ [](Exited /\ pc_main = "put_save" => Len(clip_command_queue) < QueueMaxsize)
  /\ [](Exited /\ pc_main = "get" => clip_buffer_queue = <<>>)
  /\ [][Exited /\ pc_main = "get" => pc_rec' = pc_rec /\ pc_main' = "get"]_vars

C13_Witness ==
  /\ CLIP_CODEC \notin SUPPORTED_CODECS
  /\ pc_rec = "returned"
  /\ pc_main = "get"
  /\ clip_command_queue = <<"save">>
  /\ outstanding = 1

(***************************************************************************)
(* C14: the clear comes after the acknowledgement and empties the buffer,  *)
(* so a snapshot holds only frames captured since the last clear: the      *)
(* newest ones, no more of them than were captured since then.  No frame   *)
(* of an earlier snapshot is delivered again.                              *)
(***************************************************************************)
C14_NoFrameDeliveredTwice ==
  /\ [][pc_rec = "clear" /\ pc_rec' # pc_rec =>
          unfinished_tasks = 0 /\ video_buffer' = <<>>]_vars
  /\ [](Len(video_buffer) <= since_clear)
  /\ [](Holding => Len(snapshot) <= since_clear /\ snapshot = MostRecent(Len(snapshot)))

C14_Witness ==
  /\ pc_main = "save_clip"
  /\ Cardinality(DOMAIN clip_dir) >= 1
  /\ Capacity >= 2
  /\ since_clear = 1
  /\ Len(snapshot) = 1

(***************************************************************************)
(* C15: with clip_bitrate = "auto" and a resolution that is not in the     *)
(* table, clip_compatibility raises KeyError when codec and format are     *)
(* supported (CLIP_BITRATE stays "auto", nothing is captured, no clip is   *)
(* written) and returns False when the codec or the format is not.         *)
(***************************************************************************)
C15_UnknownResolutionRaises ==
  (config_clip_bitrate.auto /\ ResolutionKey(CLIP_SIZE) \notin DOMAIN AUTO_BITRATES) =>
    /\ pc_rec \in {"start", IF SettingsRejected THEN "returned" ELSE "failed"}
    /\ compat = CASE pc_rec = "start" -> "unset"
                  [] pc_rec # "start" /\ SettingsRejected -> "False"
                  [] OTHER -> "KeyError"
    /\ CLIP_BITRATE = Auto
    /\ ~capture_failed
    /\ video_buffer = <<>> /\ next_frame = 0 /\ since_clear = 0
    /\ DOMAIN clip_dir = {} /\ ~codec_context.open /\ ~Holding

C15_Witness ==
  /\ config_clip_bitrate.auto
  /\ ResolutionKey(CLIP_SIZE) \notin DOMAIN AUTO_BITRATES
  /\ ~SettingsRejected
  /\ compat = "KeyError"
  /\ pc_rec = "failed"
  /\ pc_main = "get"

(***************************************************************************)
(* C16: whenever save_clip has configured an encoder, the bitrate it gave  *)
(* it is CLIP_BITRATE and that is a number, not "auto"; main never holds a *)
(* snapshot while CLIP_BITRATE is "auto", and once clip_compatibility has  *)
(* returned True CLIP_BITRATE does not change.                             *)
(***************************************************************************)
C16_BitrateResolvedBeforeEncoding ==
  /\ [](codec_context.open =>
          ~codec_context.bit_rate.auto /\ codec_context.bit_rate = CLIP_BITRATE)
  /\ [](Holding \/ clip_buffer_queue # <<>> => compat = "True" /\ ~CLIP_BITRATE.auto)
  /\ [][compat = "True" => CLIP_BITRATE' = CLIP_BITRATE]_vars

C16_Witness ==
  /\ config_clip_bitrate.auto
  /\ codec_context.open
  /\ codec_context.bit_rate = Numeric(5000000)
  /\ pc_main = "encode"

(***************************************************************************)
(* C17: save_clip writes clip_<n>, n being the number of entries of        *)
(* CLIP_DIR when it opens the file; only main, inside save_clip, writes to *)
(* CLIP_DIR, one file at a time.  From the empty directory the clips are   *)
(* clip_0, clip_1, ... in the order of the saves, and a save leaves every  *)
(* earlier clip as it was.                                                 *)
(***************************************************************************)
C17_SequentialClipNames ==
  /\ [][pc_main = "save_clip" /\ pc_main' = "encode" =>
          /\ output' = Cardinality(DOMAIN clip_dir)
          /\ output' \notin DOMAIN clip_dir
          /\ DOMAIN clip_dir' = DOMAIN clip_dir \cup {output'}
          /\ \A n \in DOMAIN clip_dir : clip_dir'[n] = clip_dir[n]]_vars
  /\ [](DOMAIN clip_dir = 0..(Cardinality(DOMAIN clip_dir) - 1))
  /\ [][clip_dir' # clip_dir =>
          /\ pc_main \in {"save_clip", "encode"}
          /\ \A n \in DOMAIN clip_dir : n # output' => clip_dir'[n] = clip_dir[n]]_vars
  /\ [](pc_main = "encode" => output = Cardinality(DOMAIN clip_dir) - 1)

C17_Witness ==
  /\ pc_main = "encode"
  /\ output = 1
  /\ DOMAIN clip_dir = {0, 1}
  /\ frame_idx = 2

(***************************************************************************)
(* C18: whenever main is about to send a command the command queue is      *)
(* empty, so the put does not wait; the "save" before it was taken from    *)
(* the queue before its snapshot was put on the result queue.              *)
(***************************************************************************)
C18_SendNeverBlocks ==
  /\ (pc_main \in {"poll", "put_save", "put_stop"} => clip_command_queue = <<>>)
  /\ (clip_buffer_queue # <<>> \/ Holding => clip_command_queue = <<>>)

C18_Witness ==
  /\ pc_main = "put_save"
  /\ Cardinality(DOMAIN clip_dir) >= 1
  /\ pc_rec = "join"
  /\ clip_command_queue = <<>>

(***************************************************************************)
(* C19: with a capacity of at least 1 every snapshot that is handed over   *)
(* holds at least one frame, also the one served on the first tick after   *)
(* a clear; save_clip reports "no frames" only when the capacity is 0.     *)
(***************************************************************************)
C19_SnapshotNeverEmpty ==
  /\ (Capacity >= 1 /\ (pc_rec \in {"put", "join"} \/ Holding) =>
        Len(video_buffer) >= 1)
  /\ (Capacity >= 1 /\ Holding => Len(snapshot) >= 1)
  /\ (last_save = "no_frames" => Capacity = 0)

C19_Witness ==
  /\ Capacity >= 2
  /\ pc_main = "task_done"
  /\ last_save = "written"
  /\ Len(snapshot) = 1
  /\ Cardinality(DOMAIN clip_dir) >= 2

====
